---- MODULE Spec2Model ----
(***************************************************************************)
(* perfK0sResolution (DPG/Tasks/AOTTrack/V0Cascades/perfK0sResolution.cxx) *)
(* as a state machine: the configuration, the histogram registrations of   *)
(* init, the acceptance filter acceptV0, the framework filters on events   *)
(* and V0s, and the candidate loops of processData and processMC.          *)
(*                                                                         *)
(* Floating-point quantities are fixed-point integers in units of 1/1000   *)
(* (rapidity 0.5 is 500, cosPA 0.995 is 995, nSigma 10 is 10000, ...);     *)
(* hit counts, crossed rows, PID indices and PDG codes are plain integers. *)
(***************************************************************************)
EXTENDS Integers, Sequences, FiniteSets

VARIABLES
  cfg,        \* the Configurables and the two PROCESS_SWITCH flags
  phase,      \* "constructed" | "running" | "aborted" (after LOG(fatal))
  registry,   \* histograms added by init: set of <<name, number of axes>>
  ev,         \* the collision last delivered by the framework
  evStatus,   \* "none" | "dropped" (by the event filters) | "selected"
  pending,    \* process functions still to be invoked for the selected collision
  pc,         \* "idle" | "data" | "mc": the process function being executed
  v0,         \* the V0 row last offered to the candidate loop
  v0Status,   \* "none" | "filtered" | "rejected" | "fatal" | "noPosMc" | "noNegMc" | "notPions" | "filled"
  v0Fills,    \* the fill calls issued by the current loop iteration, in order
  h1_events,  \* fills received by h1_events: at 0.5, at 1.5, at any other value
  nSelected,  \* collisions that passed the event filters
  nRows,      \* rows of the filtered V0 tables handed to a candidate loop
  acc         \* result of a stand-alone evaluation of acceptV0

vars == <<cfg, phase, registry, ev, evStatus, pending, pc, v0, v0Status,
          v0Fills, h1_events, nSelected, nRows, acc>>

Abs(x) == IF x < 0 THEN -x ELSE x

(***************************************************************************)
(* Bounds of the model.                                                    *)
(***************************************************************************)
MaxEvents == 2   \* collisions that pass the event filters in one run
MaxV0s == 3      \* rows of the filtered V0 tables iterated in one run

(***************************************************************************)
(* Physics constants used by acceptV0 (1/1000 GeV, 1/1000 cm).             *)
(***************************************************************************)
MassK0 == 498
CtauK0s == 2684

(***************************************************************************)
(* Configuration: the defaults of the Configurables; processData is        *)
(* enabled and processMC disabled by their PROCESS_SWITCH defaults.        *)
(***************************************************************************)
DefaultCfg ==
  [ v0setting_cospa |-> 995, v0setting_dcav0dau |-> 1000,
    v0setting_dcapostopv |-> 100, v0setting_dcanegtopv |-> 100,
    v0setting_radius |-> 900, v0setting_rapidity |-> 500,
    v0lifetime |-> 3000, nMaxTPCNsigma |-> 10000,
    itsIbSelectionPos |-> 0, itsIbSelectionNeg |-> 0,
    trdSelectionPos |-> 0, trdSelectionNeg |-> 0,
    tofSelectionPos |-> 0, tofSelectionNeg |-> 0,
    pidHypoPos |-> -1, pidHypoNeg |-> -1,
    extraCutTPCClusters |-> -1,
    useMultidimHisto |-> FALSE, enableTPCPlot |-> FALSE,
    computeInvMassFromDaughters |-> FALSE,
    cutzvertex |-> 10000, eventSelection |-> TRUE,
    doprocessData |-> TRUE, doprocessMC |-> FALSE ]

\* Values tried for a three-way switch and for a PID-hypothesis switch: the
\* documented ones and values outside the enumeration.
ThreeWay == {-1, 0, 1}
ThreeWayTried == {-2, -1, 0, 1, 2}
PidHypo == {-1, 0, 1, 2, 3, 4}
PidHypoTried == {-2, -1, 0, 1, 2, 3, 4, 5}

ThreeWaySwitches == {"itsIbSelectionPos", "itsIbSelectionNeg", "trdSelectionPos",
                     "trdSelectionNeg", "tofSelectionPos", "tofSelectionNeg"}
PidSwitches == {"pidHypoPos", "pidHypoNeg"}

ValidSwitches(c) ==
  /\ \A s \in ThreeWaySwitches : c[s] \in ThreeWay
  /\ \A s \in PidSwitches : c[s] \in PidHypo

\* One selection setting of c changed.
VarySelection(c) ==
  {[c EXCEPT ![s] = x] : s \in ThreeWaySwitches, x \in ThreeWayTried}
  \cup {[c EXCEPT ![s] = x] : s \in PidSwitches, x \in PidHypoTried}
  \cup {[c EXCEPT !.extraCutTPCClusters = x] : x \in {-1, 70}}
  \cup {[c EXCEPT !.v0lifetime = x] : x \in {2988, 3000}}

ModeCfgs ==
  {[DefaultCfg EXCEPT !.doprocessData = d, !.doprocessMC = m] : d, m \in BOOLEAN}

PlotCfgs ==
  {[c EXCEPT !.useMultidimHisto = u, !.enableTPCPlot = t,
             !.computeInvMassFromDaughters = i] : c \in ModeCfgs, u, t, i \in BOOLEAN}

\* Configurations of the task runs: every combination of the process switches with
\* either any combination of the plot toggles, or one selection setting changed,
\* or the event selection switched off.
RunCfgs ==
  PlotCfgs
  \cup UNION {VarySelection(c) : c \in ModeCfgs}
  \cup {[c EXCEPT !.eventSelection = FALSE] : c \in ModeCfgs}

\* Configurations of the stand-alone evaluations of acceptV0: up to two selection
\* settings changed.
AcceptCfgs == UNION {VarySelection(c) : c \in VarySelection(DefaultCfg)}

(***************************************************************************)
(* Records delivered by the framework.  A V0 row carries its two daughter  *)
(* tracks (posTrack_as / negTrack_as) and, in MC, the truth links.         *)
(***************************************************************************)
BaseTrack ==
  [ itsNClsInnerBarrel |-> 1, hasTPC |-> TRUE, tpcNSigmaPi |-> 0,
    tpcNClsCrossedRows |-> 100, hasTOF |-> FALSE, hasTRD |-> FALSE,
    pidForTracking |-> 2, has_mcParticle |-> TRUE, pdgCode |-> 211 ]

BaseV0 ==
  [ yK0Short |-> 100, v0radius |-> 1000, distovertotmom |-> 1000,
    dcapostopv |-> 200, dcanegtopv |-> -200, dcaV0daughters |-> 500,
    v0cosPA |-> 999, has_mcParticle |-> TRUE, pdgCode |-> 310,
    posTrack |-> BaseTrack,
    negTrack |-> [BaseTrack EXCEPT !.pdgCode = -211] ]

\* One detector quantity of a track changed.
VaryTrack(t) ==
  {[t EXCEPT !.itsNClsInnerBarrel = x] : x \in {0, 1}}
  \cup {[t EXCEPT !.hasTPC = x] : x \in BOOLEAN}
  \cup {[t EXCEPT !.tpcNSigmaPi = x] : x \in {-10001, -10000, 10000, 10001}}
  \cup {[t EXCEPT !.tpcNClsCrossedRows = x] : x \in {69, 70}}
  \cup {[t EXCEPT !.hasTOF = x] : x \in BOOLEAN}
  \cup {[t EXCEPT !.hasTRD = x] : x \in BOOLEAN}
  \cup {[t EXCEPT !.pidForTracking = x] : x \in {0, 2, 3}}

\* The truth link of a track changed.
VaryTruth(t) ==
  {[t EXCEPT !.has_mcParticle = FALSE]}
  \cup {[t EXCEPT !.pdgCode = x] : x \in {211, -211, 321}}

\* One quantity read by acceptV0 changed.
VaryAccept(v) ==
  {[v EXCEPT !.yK0Short = x] : x \in {-501, -500, 500, 501}}
  \cup {[v EXCEPT !.v0radius = x] : x \in {899, 900}}
  \cup {[v EXCEPT !.distovertotmom = x] : x \in {16104, 16105, 16168, 16169}}
  \cup {[v EXCEPT !.posTrack = t] : t \in VaryTrack(v.posTrack)}
  \cup {[v EXCEPT !.negTrack = t] : t \in VaryTrack(v.negTrack)}

\* One quantity read by the V0 filter changed.
VaryTopology(v) ==
  {[v EXCEPT !.dcapostopv = x] : x \in {-101, -100, 100, 101}}
  \cup {[v EXCEPT !.dcanegtopv = x] : x \in {-101, -100, 100, 101}}
  \cup {[v EXCEPT !.dcaV0daughters = x] : x \in {999, 1000}}
  \cup {[v EXCEPT !.v0cosPA = x] : x \in {995, 996}}

\* One truth link changed.
VaryLabels(v) ==
  {[v EXCEPT !.has_mcParticle = FALSE], [v EXCEPT !.pdgCode = 22]}
  \cup {[v EXCEPT !.posTrack = t] : t \in VaryTruth(v.posTrack)}
  \cup {[v EXCEPT !.negTrack = t] : t \in VaryTruth(v.negTrack)}

AcceptV0s == {BaseV0} \cup VaryAccept(BaseV0)
DataV0s == AcceptV0s \cup VaryTopology(BaseV0)
McV0s == DataV0s \cup VaryLabels(BaseV0)

BaseEvent == [posZ |-> 0, sel8 |-> TRUE]
Events == {[posZ |-> z, sel8 |-> s] : z \in {-10000, 0, 10000}, s \in BOOLEAN}

(***************************************************************************)
(* acceptV0: its checks in the order of the code.  A check ends in "pass"  *)
(* (fall through to the next statement), "false" (return false) or "fatal" *)
(* (LOG(fatal) in the default branch of a switch).                         *)
(***************************************************************************)
\* Faulty variant of RapidityCut: a candidate on the boundary is rejected.
RapidityCutExclusive(c, v) ==
  IF Abs(v.yK0Short) >= c.v0setting_rapidity THEN "false" ELSE "pass"

RapidityCut(c, v) ==
  IF Abs(v.yK0Short) > c.v0setting_rapidity THEN "false" ELSE "pass"

RadiusCut(c, v) ==
  IF v.v0radius < c.v0setting_radius THEN "false" ELSE "pass"

\* distovertotmom * mass > 2.684 * v0lifetime, both sides in units of 10^-6
LifetimeCut(c, v) ==
  IF v.distovertotmom * MassK0 > CtauK0s * c.v0lifetime THEN "false" ELSE "pass"

ItsIbSelection(sel, track) ==
  CASE sel = -1 -> IF track.itsNClsInnerBarrel > 0 THEN "false" ELSE "pass"
    [] sel = 0 -> "pass"
    [] sel = 1 -> IF track.itsNClsInnerBarrel < 1 THEN "false" ELSE "pass"
    [] OTHER -> "fatal"

HasTpcCut(ntrack, ptrack) ==
  IF ~ntrack.hasTPC \/ ~ptrack.hasTPC THEN "false" ELSE "pass"

NSigmaCut(c, ntrack, ptrack) ==
  IF Abs(ntrack.tpcNSigmaPi) > c.nMaxTPCNsigma THEN "false"
  ELSE IF Abs(ptrack.tpcNSigmaPi) > c.nMaxTPCNsigma THEN "false"
  ELSE "pass"

CrossedRowsCut(c, ntrack, ptrack) ==
  IF \/ ntrack.tpcNClsCrossedRows < c.extraCutTPCClusters
     \/ ptrack.tpcNClsCrossedRows < c.extraCutTPCClusters
  THEN "false" ELSE "pass"

TofSelection(sel, track) ==
  CASE sel = -1 -> IF track.hasTOF THEN "false" ELSE "pass"
    [] sel = 0 -> "pass"
    [] sel = 1 -> IF ~track.hasTOF THEN "false" ELSE "pass"
    [] OTHER -> "fatal"

TrdSelection(sel, track) ==
  CASE sel = -1 -> IF track.hasTRD THEN "false" ELSE "pass"
    [] sel = 0 -> "pass"
    [] sel = 1 -> IF ~track.hasTRD THEN "false" ELSE "pass"
    [] OTHER -> "fatal"

PidHypoSelection(sel, track) ==
  CASE sel = -1 -> "pass"
    [] sel \in 0..4 -> IF track.pidForTracking # sel THEN "false" ELSE "pass"
    [] OTHER -> "fatal"

NChecks == 14

\* The i-th check of acceptV0(v0, ntrack, ptrack, collision).
Check(i, c, v, ntrack, ptrack) ==
  CASE i = 1 -> RapidityCut(c, v)
    [] i = 2 -> RadiusCut(c, v)
    [] i = 3 -> LifetimeCut(c, v)
    [] i = 4 -> ItsIbSelection(c.itsIbSelectionPos, ptrack)
    [] i = 5 -> ItsIbSelection(c.itsIbSelectionNeg, ntrack)
    [] i = 6 -> HasTpcCut(ntrack, ptrack)
    [] i = 7 -> NSigmaCut(c, ntrack, ptrack)
    [] i = 8 -> CrossedRowsCut(c, ntrack, ptrack)
    [] i = 9 -> TofSelection(c.tofSelectionPos, ptrack)
    [] i = 10 -> TofSelection(c.tofSelectionNeg, ntrack)
    [] i = 11 -> TrdSelection(c.trdSelectionPos, ptrack)
    [] i = 12 -> TrdSelection(c.trdSelectionNeg, ntrack)
    [] i = 13 -> PidHypoSelection(c.pidHypoPos, ptrack)
    [] i = 14 -> PidHypoSelection(c.pidHypoNeg, ntrack)

\* The checks run in the order given, stopping at the first that does not fall
\* through; "true" when all fall through (return true).
RECURSIVE RunChecks(_, _, _, _, _)
RunChecks(order, c, v, ntrack, ptrack) ==
  IF order = <<>> THEN "true"
  ELSE LET r == Check(Head(order), c, v, ntrack, ptrack)
       IN IF r = "pass" THEN RunChecks(Tail(order), c, v, ntrack, ptrack) ELSE r

CodeOrder == [i \in 1..NChecks |-> i]

acceptV0(c, v, ntrack, ptrack) == RunChecks(CodeOrder, c, v, ntrack, ptrack)

\* The code order with check i moved to the front, and the reversed order.
MoveToFront(i) == <<i>> \o SelectSeq(CodeOrder, LAMBDA j : j # i)
Orders == {MoveToFront(i) : i \in 1..NChecks} \cup {[i \in 1..NChecks |-> NChecks + 1 - i]}

(***************************************************************************)
(* Histograms.  A fill call is recorded as the histogram's name, the       *)
(* number of values passed and a tag for the first value.                  *)
(***************************************************************************)
Fill(name, nArgs, x) == [hist |-> name, nArgs |-> nArgs, x |-> x]

EventTick == Fill("h1_events", 1, "0.5")
SeenTick == Fill("h1_events", 1, "1.5")

DauHists ==
  {"h2_massPosPtRes", "h2_massNegPtRes",
   "h2_genPtPosPtRes", "h2_genPxPosPxRes", "h2_genPyPosPyRes", "h2_genPzPosPzRes",
   "h2_genPtNegPtRes", "h2_genPxNegPxRes", "h2_genPyNegPyRes", "h2_genPzNegPzRes"}

\* init: the histograms added to the two registries, each with its number of axes.
Registered(c) ==
  {<<"h1_events", 1>>}
  \cup (IF c.doprocessMC THEN {<<h, 2>> : h \in DauHists} ELSE {})
  \cup {<<"h2_masspT", 2>>, <<"h2_masseta", 2>>, <<"h2_massphi", 2>>}
  \cup (IF c.useMultidimHisto
        THEN (IF c.doprocessMC THEN {<<"thn_mass", 9>>} ELSE {<<"thn_mass", 6>>})
        ELSE {})
  \cup (IF c.enableTPCPlot THEN {<<"h3_tpc_vs_pid_hypothesis", 3>>} ELSE {})

\* The mass filled: the stored K0s mass, or the one recomputed from the daughters.
Mass(c) == IF c.computeInvMassFromDaughters THEN "RecoDecay::m" ELSE "mK0Short"

(***************************************************************************)
(* The framework filters.                                                  *)
(***************************************************************************)
\* Faulty variant of v0Filter: the impact-parameter cuts keep the threshold value.
v0FilterInclusive(c, v) ==
  /\ Abs(v.dcapostopv) >= c.v0setting_dcapostopv
  /\ Abs(v.dcanegtopv) >= c.v0setting_dcanegtopv
  /\ v.dcaV0daughters < c.v0setting_dcav0dau
  /\ v.v0cosPA > c.v0setting_cospa

v0Filter(c, v) ==
  /\ Abs(v.dcapostopv) > c.v0setting_dcapostopv
  /\ Abs(v.dcanegtopv) > c.v0setting_dcanegtopv
  /\ v.dcaV0daughters < c.v0setting_dcav0dau
  /\ v.v0cosPA > c.v0setting_cospa

eventFilter(c, e) == c.eventSelection /\ e.sel8 = TRUE

posZFilter(c, e) == Abs(e.posZ) < c.cutzvertex

(***************************************************************************)
(* The body of the candidate loop of processData and of processMC for one  *)
(* row: the outcome of the iteration and the fill calls it issues.         *)
(***************************************************************************)
\* Faulty variant of DataFills: the TPC plot is filled for the positive daughter only.
DataFillsOneTpcFill(c) ==
  << Fill("h2_masspT", 2, Mass(c)), Fill("h2_masseta", 2, Mass(c)),
     Fill("h2_massphi", 2, Mass(c)) >>
  \o (IF c.useMultidimHisto THEN <<Fill("thn_mass", 6, Mass(c))>> ELSE <<>>)
  \o (IF c.enableTPCPlot
      THEN <<Fill("h3_tpc_vs_pid_hypothesis", 3, "posTrack.tpcInnerParam")>>
      ELSE <<>>)

DataFills(c) ==
  << Fill("h2_masspT", 2, Mass(c)), Fill("h2_masseta", 2, Mass(c)),
     Fill("h2_massphi", 2, Mass(c)) >>
  \o (IF c.useMultidimHisto THEN <<Fill("thn_mass", 6, Mass(c))>> ELSE <<>>)
  \o (IF c.enableTPCPlot
      THEN << Fill("h3_tpc_vs_pid_hypothesis", 3, "posTrack.tpcInnerParam"),
              Fill("h3_tpc_vs_pid_hypothesis", 3, "-negTrack.tpcInnerParam") >>
      ELSE <<>>)

McFills(c) ==
  << Fill("h2_genPtPosPtRes", 2, "res"), Fill("h2_genPxPosPxRes", 2, "res"),
     Fill("h2_genPyPosPyRes", 2, "res"), Fill("h2_genPzPosPzRes", 2, "res"),
     Fill("h2_genPtNegPtRes", 2, "res"), Fill("h2_genPxNegPxRes", 2, "res"),
     Fill("h2_genPyNegPyRes", 2, "res"), Fill("h2_genPzNegPzRes", 2, "res"),
     Fill("h2_massPosPtRes", 2, Mass(c)), Fill("h2_massNegPtRes", 2, Mass(c)),
     Fill("h2_masspT", 2, Mass(c)), Fill("h2_masseta", 2, Mass(c)),
     Fill("h2_massphi", 2, Mass(c)) >>
  \o (IF c.useMultidimHisto THEN <<Fill("thn_mass", 9, Mass(c))>> ELSE <<>>)

Outcome(status, fills) == [status |-> status, fills |-> fills]

\* Faulty variant of DataBody: the 'seen' tick is filled after the acceptance check.
DataBodyTickOnAccept(c, v) ==
  LET a == acceptV0(c, v, v.negTrack, v.posTrack)
  IN CASE a = "fatal" -> Outcome("fatal", <<>>)
       [] a = "false" -> Outcome("rejected", <<>>)
       [] OTHER -> Outcome("filled", <<SeenTick>> \o DataFills(c))

DataBody(c, v) ==
  LET a == acceptV0(c, v, v.negTrack, v.posTrack)
  IN CASE a = "fatal" -> Outcome("fatal", <<SeenTick>>)
       [] a = "false" -> Outcome("rejected", <<SeenTick>>)
       [] OTHER -> Outcome("filled", <<SeenTick>> \o DataFills(c))

\* Faulty variant of McBody: the mass histograms are filled before the truth checks.
McBodyEarlyFill(c, v) ==
  LET a == acceptV0(c, v, v.negTrack, v.posTrack)
      early == << Fill("h2_masspT", 2, Mass(c)), Fill("h2_masseta", 2, Mass(c)),
                  Fill("h2_massphi", 2, Mass(c)) >>
  IN CASE a = "fatal" -> Outcome("fatal", <<SeenTick>>)
       [] a = "false" -> Outcome("rejected", <<SeenTick>>)
       [] ~v.posTrack.has_mcParticle -> Outcome("noPosMc", <<SeenTick>> \o early)
       [] ~v.negTrack.has_mcParticle -> Outcome("noNegMc", <<SeenTick>> \o early)
       [] v.posTrack.pdgCode # 211 \/ v.negTrack.pdgCode # -211 ->
            Outcome("notPions", <<SeenTick>> \o early)
       [] OTHER -> Outcome("filled", <<SeenTick>> \o McFills(c))

\* Faulty variant of McBody: a candidate is skipped only if both species are wrong.
McBodyBothSpecies(c, v) ==
  LET a == acceptV0(c, v, v.negTrack, v.posTrack)
  IN CASE a = "fatal" -> Outcome("fatal", <<SeenTick>>)
       [] a = "false" -> Outcome("rejected", <<SeenTick>>)
       [] ~v.posTrack.has_mcParticle -> Outcome("noPosMc", <<SeenTick>>)
       [] ~v.negTrack.has_mcParticle -> Outcome("noNegMc", <<SeenTick>>)
       [] v.posTrack.pdgCode # 211 /\ v.negTrack.pdgCode # -211 ->
            Outcome("notPions", <<SeenTick>>)
       [] OTHER -> Outcome("filled", <<SeenTick>> \o McFills(c))

McBody(c, v) ==
  LET a == acceptV0(c, v, v.negTrack, v.posTrack)
  IN CASE a = "fatal" -> Outcome("fatal", <<SeenTick>>)
       [] a = "false" -> Outcome("rejected", <<SeenTick>>)
       [] ~v.posTrack.has_mcParticle -> Outcome("noPosMc", <<SeenTick>>)
       [] ~v.negTrack.has_mcParticle -> Outcome("noNegMc", <<SeenTick>>)
       [] v.posTrack.pdgCode # 211 \/ v.negTrack.pdgCode # -211 ->
            Outcome("notPions", <<SeenTick>>)
       [] OTHER -> Outcome("filled", <<SeenTick>> \o McFills(c))

\* h1_events after the fill calls of `fills` that target it.
H1Fills(fills, xs) ==
  Cardinality({i \in 1..Len(fills) : fills[i].hist = "h1_events" /\ fills[i].x \in xs})

H1Others(fills) ==
  Cardinality({i \in 1..Len(fills) :
                 fills[i].hist = "h1_events" /\ fills[i].x \notin {"0.5", "1.5"}})

FillH1(h, fills) ==
  [ at05 |-> h.at05 + H1Fills(fills, {"0.5"}),
    at15 |-> h.at15 + H1Fills(fills, {"1.5"}),
    other |-> h.other + H1Others(fills) ]

\* The process functions the framework invokes for a selected collision.
EnabledProcesses(c) ==
  (IF c.doprocessData THEN <<"data">> ELSE <<>>)
  \o (IF c.doprocessMC THEN <<"mc">> ELSE <<>>)

(***************************************************************************)
(* The task run.                                                           *)
(***************************************************************************)
NoAcc == [order |-> <<>>, ret |-> "none", permuted |-> "none"]

Init ==
  /\ cfg \in RunCfgs
  /\ phase = "constructed"
  /\ registry = {}
  /\ ev = BaseEvent
  /\ evStatus = "none"
  /\ pending = <<>>
  /\ pc = "idle"
  /\ v0 = BaseV0
  /\ v0Status = "none"
  /\ v0Fills = <<>>
  /\ h1_events = [at05 |-> 0, at15 |-> 0, other |-> 0]
  /\ nSelected = 0
  /\ nRows = 0
  /\ acc = NoAcc

\* init(InitContext const&)
init ==
  /\ phase = "constructed"
  /\ phase' = "running"
  /\ registry' = Registered(cfg)
  /\ UNCHANGED <<cfg, ev, evStatus, pending, pc, v0, v0Status, v0Fills,
                 h1_events, nSelected, nRows, acc>>

\* The framework delivers a collision: the event filters drop it or select it for
\* the enabled process functions.
Supply ==
  /\ phase = "running" /\ pc = "idle" /\ pending = <<>>
  /\ nSelected < MaxEvents
  /\ \E e \in Events :
       /\ ev' = e
       /\ IF eventFilter(cfg, e) /\ posZFilter(cfg, e)
          THEN /\ evStatus' = "selected"
               /\ nSelected' = nSelected + 1
               /\ pending' = EnabledProcesses(cfg)
          ELSE /\ evStatus' = "dropped"
               /\ UNCHANGED <<nSelected, pending>>
  /\ UNCHANGED <<cfg, phase, registry, pc, v0, v0Status, v0Fills, h1_events,
                 nRows, acc>>

\* Entry of processData / processMC for the selected collision.
Enter(p) ==
  /\ phase = "running" /\ pc = "idle"
  /\ pending # <<>> /\ Head(pending) = p
  /\ pending' = Tail(pending)
  /\ pc' = p
  /\ v0Status' = "none"
  /\ v0Fills' = <<EventTick>>
  /\ h1_events' = FillH1(h1_events, <<EventTick>>)
  /\ UNCHANGED <<cfg, phase, registry, ev, evStatus, v0, nSelected, nRows, acc>>

processData == Enter("data")

processMC == Enter("mc")

\* A row that the V0 filter drops never reaches the candidate loop.
SkipV0 ==
  /\ phase = "running" /\ pc \in {"data", "mc"}
  /\ \E v \in (IF pc = "data" THEN DataV0s ELSE McV0s) :
       /\ ~v0Filter(cfg, v)
       /\ v0' = v
  /\ v0Status' = "filtered"
  /\ v0Fills' = <<>>
  /\ UNCHANGED <<cfg, phase, registry, ev, evStatus, pending, pc, h1_events,
                 nSelected, nRows, acc>>

\* One iteration of the candidate loop over the filtered V0 table.
Iterate(v, out) ==
  /\ nRows < MaxV0s
  /\ v0Filter(cfg, v)
  /\ v0' = v
  /\ v0Status' = out.status
  /\ v0Fills' = out.fills
  /\ h1_events' = FillH1(h1_events, out.fills)
  /\ phase' = IF out.status = "fatal" THEN "aborted" ELSE phase
  /\ nRows' = nRows + 1
  /\ UNCHANGED <<cfg, registry, ev, evStatus, pending, pc, nSelected, acc>>

processDataV0 ==
  /\ phase = "running" /\ pc = "data"
  /\ \E v \in DataV0s : Iterate(v, DataBody(cfg, v))

processMCV0 ==
  /\ phase = "running" /\ pc = "mc"
  /\ \E v \in McV0s : Iterate(v, McBody(cfg, v))

\* The candidate loop ends and the process function returns.
Return ==
  /\ phase = "running" /\ pc \in {"data", "mc"}
  /\ pc' = "idle"
  /\ v0' = BaseV0
  /\ v0Status' = "none"
  /\ v0Fills' = <<>>
  /\ UNCHANGED <<cfg, phase, registry, ev, evStatus, pending, h1_events,
                 nSelected, nRows, acc>>

Next ==
  \/ init
  \/ Supply
  \/ processData
  \/ processMC
  \/ SkipV0
  \/ processDataV0
  \/ processMCV0
  \/ Return

Spec == Init /\ [][Next]_vars

(***************************************************************************)
(* Stand-alone evaluations of acceptV0: a configuration and a candidate    *)
(* are drawn, and the checks are run in the code's order and in another.   *)
(***************************************************************************)
InitAccept ==
  /\ cfg \in AcceptCfgs
  /\ v0 \in AcceptV0s
  /\ phase = "running"
  /\ registry = Registered(cfg)
  /\ ev = BaseEvent
  /\ evStatus = "none"
  /\ pending = <<>>
  /\ pc = "idle"
  /\ v0Status = "none"
  /\ v0Fills = <<>>
  /\ h1_events = [at05 |-> 0, at15 |-> 0, other |-> 0]
  /\ nSelected = 0
  /\ nRows = 0
  /\ acc = NoAcc

EvaluateAcceptV0 ==
  /\ acc = NoAcc
  /\ \E o \in Orders :
       acc' = [ order |-> o,
                ret |-> acceptV0(cfg, v0, v0.negTrack, v0.posTrack),
                permuted |-> RunChecks(o, cfg, v0, v0.negTrack, v0.posTrack) ]
  /\ UNCHANGED <<cfg, phase, registry, ev, evStatus, pending, pc, v0, v0Status,
                 v0Fills, h1_events, nSelected, nRows>>

NextAccept == EvaluateAcceptV0

SpecAccept == InitAccept /\ [][NextAccept]_vars

(***************************************************************************)
(* Properties.                                                             *)
(***************************************************************************)
\* The loop body ran for the row in v0 (it was not dropped by the V0 filter).
Iterated == v0Status \notin {"none", "filtered"}

FillNames(fills) == {fills[i].hist : i \in 1..Len(fills)}

FillCount(name, fills) == Cardinality({i \in 1..Len(fills) : fills[i].hist = name})

NumProcesses(c) == Len(EnabledProcesses(c))

\* A three-way switch against a count or a presence flag: -1 none, 0 any, 1 some.
ThreeWayHolds(sel, present) ==
  (sel = -1 /\ ~present) \/ sel = 0 \/ (sel = 1 /\ present)

PidHolds(sel, track) == sel = -1 \/ track.pidForTracking = sel

AllCutsHold(c, v) ==
  /\ Abs(v.yK0Short) <= c.v0setting_rapidity
  /\ v.v0radius >= c.v0setting_radius
  /\ v.distovertotmom * MassK0 <= CtauK0s * c.v0lifetime
  /\ ThreeWayHolds(c.itsIbSelectionPos, v.posTrack.itsNClsInnerBarrel >= 1)
  /\ ThreeWayHolds(c.itsIbSelectionNeg, v.negTrack.itsNClsInnerBarrel >= 1)
  /\ v.posTrack.hasTPC /\ v.negTrack.hasTPC
  /\ Abs(v.posTrack.tpcNSigmaPi) <= c.nMaxTPCNsigma
  /\ Abs(v.negTrack.tpcNSigmaPi) <= c.nMaxTPCNsigma
  /\ v.posTrack.tpcNClsCrossedRows >= c.extraCutTPCClusters
  /\ v.negTrack.tpcNClsCrossedRows >= c.extraCutTPCClusters
  /\ ThreeWayHolds(c.tofSelectionPos, v.posTrack.hasTOF)
  /\ ThreeWayHolds(c.tofSelectionNeg, v.negTrack.hasTOF)
  /\ ThreeWayHolds(c.trdSelectionPos, v.posTrack.hasTRD)
  /\ ThreeWayHolds(c.trdSelectionNeg, v.negTrack.hasTRD)
  /\ PidHolds(c.pidHypoPos, v.posTrack)
  /\ PidHolds(c.pidHypoNeg, v.negTrack)

\* C1: with all eight switches at documented values, acceptV0 returns true exactly
\* when every cut holds (rapidity <=, radius >=, lifetime <=, ITS/TOF/TRD switches,
\* both daughters with TPC, nSigma <=, crossed rows >=, PID hypothesis); it never
\* takes the fatal path, and a value on a boundary is accepted.
C1_AcceptIffAllCuts ==
  (acc.ret # "none" /\ ValidSwitches(cfg)) =>
    /\ acc.ret \in {"true", "false"}
    /\ acc.ret = "true" <=> AllCutsHold(cfg, v0)

\* C1 witness: a candidate exactly on the lifetime boundary is accepted.
C1_Witness ==
  /\ acc.ret = "true" /\ ValidSwitches(cfg)
  /\ v0.distovertotmom * MassK0 = CtauK0s * cfg.v0lifetime

\* C2: whenever acceptV0 is evaluated for a candidate under a configuration with a
\* switch outside its enumeration, the outcome is the fatal path and the process
\* is terminated; never a silent accept or a silent reject.
C2_InvalidSwitchIsFatal ==
  (Iterated /\ ~ValidSwitches(cfg)) => (v0Status = "fatal" /\ phase = "aborted")

\* C3: the outcome of the acceptance filter (true, false or fatal) is the same
\* whatever the order in which the 14 checks are run, for every configuration,
\* those with an out-of-range switch included.
C3_OrderIndependent ==
  acc.ret # "none" => acc.permuted = acc.ret

\* C4: every candidate that reaches a candidate loop satisfies the four pre-filter
\* cuts strictly, and every collision that reaches processData or processMC has
\* |posZ| strictly below the vertex-z cut and a true selection flag.
C4_PreFiltersStrict ==
  /\ Iterated =>
       /\ Abs(v0.dcapostopv) > cfg.v0setting_dcapostopv
       /\ Abs(v0.dcanegtopv) > cfg.v0setting_dcanegtopv
       /\ v0.dcaV0daughters < cfg.v0setting_dcav0dau
       /\ v0.v0cosPA > cfg.v0setting_cospa
  /\ (pc \in {"data", "mc"} \/ pending # <<>> \/ evStatus = "selected") =>
       /\ evStatus = "selected"
       /\ Abs(ev.posZ) < cfg.cutzvertex
       /\ ev.sel8

\* C4 witness: a candidate just inside the impact-parameter cut is iterated.
C4_Witness ==
  /\ Iterated /\ pc \in {"data", "mc"} /\ evStatus = "selected"
  /\ Abs(v0.dcapostopv) = cfg.v0setting_dcapostopv + 1

\* The histograms filled for an accepted candidate by process function p.
FullSet(p, c) ==
  {"h2_masspT", "h2_masseta", "h2_massphi"}
  \cup (IF c.useMultidimHisto THEN {"thn_mass"} ELSE {})
  \cup (IF p = "data" /\ c.enableTPCPlot THEN {"h3_tpc_vs_pid_hypothesis"} ELSE {})
  \cup (IF p = "mc" THEN DauHists ELSE {})

\* C5: apart from the 'seen' tick, an iterated candidate causes either every fill
\* of the full set of its mode and configuration, or no fill at all; a candidate
\* that is not accepted (rejected, fatal, missing truth link, species mismatch)
\* has caused no fill.
C5_AllOrNothing ==
  Iterated =>
    /\ Head(v0Fills) = SeenTick
    /\ FillNames(Tail(v0Fills)) =
         (IF v0Status = "filled" THEN FullSet(pc, cfg) ELSE {})

\* C5 witness: in truth mode a candidate that passes acceptV0 is skipped for a
\* missing truth link of the negative daughter.
C5_Witness ==
  /\ pc = "mc" /\ v0Status = "noNegMc"
  /\ acceptV0(cfg, v0, v0.negTrack, v0.posTrack) = "true"

\* C6 as stated: every registered histogram other than h1_events receives exactly
\* one fill per accepted candidate.
C6_OneFillPerHistogram ==
  v0Status = "filled" =>
    \A r \in registry : r[1] # "h1_events" => FillCount(r[1], v0Fills) = 1

FillsPerAccepted(p, name) ==
  CASE name = "h3_tpc_vs_pid_hypothesis" -> IF p = "data" THEN 2 ELSE 0
    [] name \in DauHists -> IF p = "mc" THEN 1 ELSE 0
    [] OTHER -> 1

\* C6 amended: per accepted candidate, h2_masspT, h2_masseta, h2_massphi and (when
\* registered) thn_mass receive exactly one fill in either mode; the ten daughter
\* resolution histograms receive exactly one fill in truth mode and none in data
\* mode; h3_tpc_vs_pid_hypothesis receives exactly two fills in data mode and none
\* in truth mode.
C6_FillsPerHistogram ==
  v0Status = "filled" =>
    \A r \in registry :
      r[1] # "h1_events" => FillCount(r[1], v0Fills) = FillsPerAccepted(pc, r[1])

\* C6 witness: a candidate accepted in data mode with the TPC plot, the
\* multi-dimensional histogram and processMC enabled.
C6_Witness ==
  /\ v0Status = "filled" /\ pc = "data"
  /\ cfg.enableTPCPlot /\ cfg.useMultidimHisto /\ cfg.doprocessMC

\* C7 as stated: with a process function enabled and all switches valid, once the
\* selected collisions are processed h1_events holds one fill at 0.5 per processed
\* collision, and nothing but 0.5 and 1.5.
C7_OneTickPerEvent ==
  ( /\ cfg.doprocessData \/ cfg.doprocessMC
    /\ ValidSwitches(cfg)
    /\ phase = "running" /\ pc = "idle" /\ pending = <<>> ) =>
    (h1_events.at05 = nSelected /\ h1_events.other = 0)

\* C7 amended: h1_events holds exactly one fill at 0.5 per invocation of
\* processData or processMC (one per selected collision and enabled mode), exactly
\* one fill at 1.5 per row iterated by a candidate loop, whether accepted or not,
\* and no other value.
C7_TicksPerInvocation ==
  /\ h1_events.at05 = NumProcesses(cfg) * nSelected - Len(pending)
  /\ h1_events.at15 = nRows
  /\ h1_events.other = 0

\* C7 witness: both modes enabled, two collisions fully processed, rows iterated.
C7_Witness ==
  /\ cfg.doprocessData /\ cfg.doprocessMC
  /\ pc = "idle" /\ pending = <<>> /\ nSelected = 2 /\ nRows >= 2
  /\ h1_events.at05 = 4

PionPair(v) ==
  /\ v.posTrack.has_mcParticle /\ v.negTrack.has_mcParticle
  /\ v.posTrack.pdgCode = 211 /\ v.negTrack.pdgCode = -211

C9_FillsMatchRegistry ==
  \A i \in 1..Len(v0Fills) : <<v0Fills[i].hist, v0Fills[i].nArgs>> \in registry

\* C10: with eventSelection true a collision is processed only if sel8 is true;
\* with eventSelection false the selection-flag cut is not applied, and a collision
\* with |posZ| below the vertex-z cut is processed whatever its flag.
C10_EventSelectionToggle ==
  evStatus # "none" =>
    (evStatus = "selected" <=>
       (Abs(ev.posZ) < cfg.cutzvertex /\ (cfg.eventSelection => ev.sel8)))
====
